---- MODULE Spec2Model ----
(***************************************************************************)
(* current_players.py: look up applications by name in a cached catalog    *)
(* snapshot and report the live player count of every match.               *)
(*                                                                         *)
(* The model follows one invocation of main() after another against a      *)
(* file system that persists between invocations: the cache directory      *)
(* TEMP_DATA_DIR and the snapshot APP_LIST_FILE.  The provider (catalog    *)
(* endpoint, metric endpoint), the terminal and an operator who may        *)
(* terminate the process are the environment; their answers are drawn      *)
(* nondeterministically.                                                   *)
(***************************************************************************)
EXTENDS Integers, Sequences, FiniteSets, TLC

(***************************************************************************)
(* Bounds of the model.                                                    *)
(***************************************************************************)
\* most requests get_app_list issues before the provider stops answering null
MaxAttempts == 3
\* largest player_count a metric response carries
MaxCount == 2
\* largest value of --num-rows
MaxRows == 4

(***************************************************************************)
(* Strings.  A name or a query is a sequence of characters over a small    *)
(* alphabet; Python orders str by code point and lower() folds case.       *)
(***************************************************************************)
CodePoint(c) == CASE c = "A" -> 65 [] c = "B" -> 66 [] c = "a" -> 97 [] OTHER -> 98

Lower(c) == CASE c = "A" -> "a" [] c = "B" -> "b" [] OTHER -> c

LowerStr(s) == [k \in 1..Len(s) |-> Lower(s[k])]

\* Python's str.__lt__: lexicographic by code point, a proper prefix is smaller
RECURSIVE StrLess(_, _)
StrLess(s, t) ==
    IF t = <<>> THEN FALSE
    ELSE IF s = <<>> THEN TRUE
    ELSE IF CodePoint(Head(s)) # CodePoint(Head(t))
         THEN CodePoint(Head(s)) < CodePoint(Head(t))
    ELSE StrLess(Tail(s), Tail(t))

\* re.compile(re.escape(q)).search(s): q occurs literally somewhere in s
PatternSearch(q, s) ==
    \E k \in 0..(Len(s) - Len(q)) : SubSeq(s, k + 1, k + Len(q)) = q

Min(a, b) == IF a < b THEN a ELSE b

Max(a, b) == IF a < b THEN b ELSE a

(***************************************************************************)
(* The provider's catalog endpoint.  A response is the text of its body    *)
(* and its HTTP status, or no response at all (requests.get raises).       *)
(***************************************************************************)
CatalogA ==
    << [appid |-> 20, name |-> <<"A", "b">>],
       [appid |-> 10, name |-> <<"b">>],
       [appid |-> 20, name |-> <<"a">>] >>

CatalogB == << [appid |-> 30, name |-> <<"b", "a", "B">>] >>

\* body texts: two catalogs, a catalog without apps, an object without
\* "applist", the JSON literal null, and a body that is not JSON
CatalogTexts == {"catalog_A", "catalog_B"}

BodyTexts == CatalogTexts \cup {"catalog_empty", "{}", "null", "<html>"}

NoResponse == [raised |-> FALSE, status |-> 0, text |-> ""]

CatalogResponses ==
    {[raised |-> FALSE, status |-> s, text |-> t] : s \in {200, 503}, t \in BodyTexts}
    \cup {[raised |-> TRUE, status |-> 0, text |-> ""]}

\* Response.raise_for_status(): HTTPError for a 4xx/5xx status
RaisesForStatus(r) == r.status >= 400

\* Response.json() / json.loads(): raises on a text that is not JSON
IsJson(t) == t \in BodyTexts \ {"<html>"}

\* "res.json() is None", the test of the retry loop
JsonIsNone(t) == t = "null"

\* json_dict["applist"]["apps"] can be evaluated
HasAppList(t) == t \in CatalogTexts \cup {"catalog_empty"}

AppList(t) ==
    CASE t = "catalog_A" -> CatalogA
      [] t = "catalog_B" -> CatalogB
      [] OTHER -> <<>>

(***************************************************************************)
(* The provider's metric endpoint.                                         *)
(***************************************************************************)
Pending == [kind |-> "pending", count |-> 0]

\* a metric, a JSON body without player_count, a body on which json() or
\* the subscripts raise something other than KeyError, no response at all
MetricResponses ==
    {[kind |-> "count", count |-> c] : c \in 0..MaxCount}
    \cup {[kind |-> k, count |-> 0] : k \in {"nofield", "badjson", "transport"}}

Queries == {<<>>, <<"a">>, <<"B">>, <<"b", "b">>}

TerminalWidths == {3, 80}

VARIABLES
    cacheDir,           \* TEMP_DATA_DIR exists
    fileExists,         \* APP_LIST_FILE exists
    fileText,           \* and its content
    pc,                 \* where the current invocation is
    clear_cache, PRINT_LIST, num_rows, query,   \* main's arguments
    res,                \* get_app_list's local
    attempts,           \* history: the responses get_app_list has received
    fetched,            \* history: get_app_list returned in this run
    found_app_ids, found_app_names, found_app_players,
    futures,            \* the result of each retrieval, Pending until it completes
    completed,          \* history: indices of futures in order of completion
    zipped,             \* print_player_table: what is left of the sorted records
    display,            \* the display_app_* lists, as records
    w,                  \* terminal width
    output,             \* what was rendered on stdout
    stderr,             \* message on the error stream
    error               \* the exception that ended the run, with its place

fsVars == <<cacheDir, fileExists, fileText>>
argVars == <<clear_cache, PRINT_LIST, num_rows, query>>
listVars == <<res, attempts, fetched>>
infoVars == <<found_app_ids, found_app_names, found_app_players, futures, completed>>
tableVars == <<zipped, display, w, output, stderr>>
vars == <<fsVars, pc, argVars, listVars, infoVars, tableVars, error>>

NoOutput == [format |-> "none", rule |-> 0, width |-> 0, rows |-> <<>>]

NoError == [kind |-> "none", at |-> "none"]

Init ==
    /\ cacheDir = FALSE
    /\ fileExists = FALSE
    /\ fileText = ""
    /\ pc = "idle"
    /\ clear_cache = FALSE
    /\ PRINT_LIST = FALSE
    /\ num_rows = 10
    /\ query = <<>>
    /\ res = NoResponse
    /\ attempts = <<>>
    /\ fetched = FALSE
    /\ found_app_ids = <<>>
    /\ found_app_names = <<>>
    /\ found_app_players = <<>>
    /\ futures = <<>>
    /\ completed = <<>>
    /\ zipped = <<>>
    /\ display = <<>>
    /\ w = 0
    /\ output = NoOutput
    /\ stderr = ""
    /\ error = NoError

\* an uncaught exception ends the run
Raise(kind, at) ==
    /\ pc' = "crashed"
    /\ error' = [kind |-> kind, at |-> at]

Ended == pc \in {"idle", "done", "exited", "crashed", "killed"}

(***************************************************************************)
(* main                                                                    *)
(***************************************************************************)
\* the command line is parsed and main is entered with fresh locals
Invoke ==
    /\ Ended
    /\ pc' = "main"
    /\ clear_cache' \in BOOLEAN
    /\ PRINT_LIST' \in BOOLEAN
    /\ num_rows' \in (-1)..MaxRows
    /\ query' \in Queries
    /\ res' = NoResponse
    /\ attempts' = <<>>
    /\ fetched' = FALSE
    /\ found_app_ids' = <<>>
    /\ found_app_names' = <<>>
    /\ found_app_players' = <<>>
    /\ futures' = <<>>
    /\ completed' = <<>>
    /\ zipped' = <<>>
    /\ display' = <<>>
    /\ w' = 0
    /\ output' = NoOutput
    /\ stderr' = ""
    /\ error' = NoError
    /\ UNCHANGED fsVars

\* os.removedirs(TEMP_DATA_DIR): rmdir of the leaf must succeed; it raises
\* FileNotFoundError when the directory is absent and OSError (ENOTEMPTY)
\* when it holds the snapshot.  The now empty parents are pruned silently.
RemoveDirs ==
    IF ~cacheDir THEN "FileNotFoundError"
    ELSE IF fileExists THEN "OSError"
    ELSE "removed"

\* if clear_cache: os.removedirs(TEMP_DATA_DIR)
Invalidate ==
    /\ pc = "main"
    /\ IF clear_cache
       THEN IF RemoveDirs = "removed"
            THEN /\ cacheDir' = FALSE
                 /\ pc' = "makedirs"
                 /\ UNCHANGED error
            ELSE /\ Raise(RemoveDirs, "invalidate")
                 /\ UNCHANGED cacheDir
       ELSE /\ pc' = "makedirs"
            /\ UNCHANGED <<cacheDir, error>>
    /\ UNCHANGED <<fileExists, fileText, argVars, listVars, infoVars, tableVars>>

\* if not os.path.exists(TEMP_DATA_DIR): os.makedirs(TEMP_DATA_DIR, exist_ok=True)
\* if not os.path.exists(APP_LIST_FILE): get_app_list()
EnsureDir ==
    /\ pc = "makedirs"
    /\ cacheDir' = TRUE
    /\ pc' = IF fileExists THEN "cache_hit" ELSE "get_app_list"
    /\ UNCHANGED <<fileExists, fileText, argVars, listVars, infoVars, tableVars, error>>

(***************************************************************************)
(* get_app_list                                                            *)
(***************************************************************************)
\* res = requests.get(APP_LIST_URL); res.raise_for_status()
FirstRequest ==
    /\ pc = "get_app_list"
    /\ \E r \in CatalogResponses :
        /\ attempts' = <<r>>
        /\ IF r.raised
           THEN Raise("ConnectionError", "get_app_list") /\ UNCHANGED res
           ELSE IF RaisesForStatus(r)
           THEN Raise("HTTPError", "get_app_list") /\ res' = r
           ELSE pc' = "retry_loop" /\ res' = r /\ UNCHANGED error
    /\ UNCHANGED <<fsVars, argVars, fetched, infoVars, tableVars>>

RetryNever(r) == FALSE

\* while res.json() is None
RetryNeeded(r) == JsonIsNone(r.text)

\* the loop body: time.sleep(1); res = requests.get(APP_LIST_URL)
RetryRequest ==
    /\ pc = "retry_loop"
    /\ IsJson(res.text)
    /\ RetryNeeded(res)
    /\ Len(attempts) < MaxAttempts
    /\ \E r \in CatalogResponses :
        /\ attempts' = Append(attempts, r)
        /\ IF r.raised
           THEN Raise("ConnectionError", "get_app_list") /\ UNCHANGED res
           ELSE res' = r /\ UNCHANGED <<pc, error>>
    /\ UNCHANGED <<fsVars, argVars, fetched, infoVars, tableVars>>

\* the loop condition is false, or res.json() raises on a body that is not JSON
LeaveLoop ==
    /\ pc = "retry_loop"
    /\ IF ~IsJson(res.text)
       THEN Raise("JSONDecodeError", "get_app_list")
       ELSE /\ ~RetryNeeded(res)
            /\ pc' = "open"
            /\ UNCHANGED error
    /\ UNCHANGED <<fsVars, argVars, listVars, infoVars, tableVars>>

\* open(APP_LIST_FILE, "w"): the file is created, or truncated, empty
OpenFile ==
    /\ pc = "open"
    /\ IF cacheDir
       THEN /\ fileExists' = TRUE
            /\ fileText' = ""
            /\ pc' = "write"
            /\ UNCHANGED error
       ELSE /\ Raise("FileNotFoundError", "get_app_list")
            /\ UNCHANGED <<fileExists, fileText>>
    /\ UNCHANGED <<cacheDir, argVars, listVars, infoVars, tableVars>>

\* out_file.write(res.text), the file is closed and get_app_list returns
WriteFile ==
    /\ pc = "write"
    /\ fileText' = res.text
    /\ fetched' = TRUE
    /\ pc' = "list_saved"
    /\ UNCHANGED <<cacheDir, fileExists, argVars, res, attempts, infoVars, tableVars, error>>

(***************************************************************************)
(* get_apps_info                                                           *)
(***************************************************************************)
\* the indices of the apps whose lowered name the lowered, escaped query occurs in
RECURSIVE Matching(_, _, _)
Matching(app_list, q, k) ==
    IF k > Len(app_list) THEN <<>>
    ELSE IF PatternSearch(LowerStr(q), LowerStr(app_list[k].name))
         THEN <<k>> \o Matching(app_list, q, k + 1)
    ELSE Matching(app_list, q, k + 1)

\* what json.loads and the two subscripts raise on the file's text
LoadError(t) ==
    IF ~IsJson(t) THEN "JSONDecodeError"
    ELSE IF JsonIsNone(t) THEN "TypeError"
    ELSE IF ~HasAppList(t) THEN "KeyError"
    ELSE "none"

\* the snapshot is read and searched, and one retrieval per match is launched
LoadAndMatch ==
    /\ pc \in {"cache_hit", "list_saved"}
    /\ res' = NoResponse
    /\ attempts' = <<>>
    /\ IF LoadError(fileText) # "none"
       THEN /\ Raise(LoadError(fileText), "get_apps_info")
            /\ UNCHANGED infoVars
       ELSE LET app_list == AppList(fileText)
                found == Matching(app_list, query, 1)
            IN  /\ found_app_ids' = [k \in 1..Len(found) |-> app_list[found[k]].appid]
                /\ found_app_names' = [k \in 1..Len(found) |-> app_list[found[k]].name]
                /\ found_app_players' = <<>>
                /\ futures' = [k \in 1..Len(found) |-> Pending]
                /\ completed' = <<>>
                /\ pc' = "gather"
                /\ UNCHANGED error
    /\ UNCHANGED <<fsVars, argVars, fetched, tableVars>>

(***************************************************************************)
(* get_player_counts                                                       *)
(***************************************************************************)
\* one requests.get in the executor returns or raises; an exception of any
\* future is raised by the await of asyncio.gather
CompleteRetrieval ==
    /\ pc = "gather"
    /\ \E i \in DOMAIN futures, r \in MetricResponses :
        /\ futures[i] = Pending
        /\ futures' = [futures EXCEPT ![i] = r]
        /\ completed' = Append(completed, i)
        /\ IF r.kind = "transport"
           THEN Raise("ConnectionError", "get_player_counts")
           ELSE UNCHANGED <<pc, error>>
    /\ UNCHANGED <<fsVars, argVars, listVars, found_app_ids, found_app_names,
                   found_app_players, tableVars>>

GatherInCompletionOrder(futs, order) == [k \in 1..Len(order) |-> futs[order[k]]]

\* asyncio.gather(*futures): the results in the order of the futures
\* passed, whatever the order in which they completed
Gather(futs, order) == futs

PlayerCountNoDefault(r) ==
    IF r.kind = "count"
    THEN [raised |-> FALSE, value |-> r.count]
    ELSE [raised |-> TRUE, value |-> 0]

\* response.json()["response"]["player_count"], 0 on KeyError
PlayerCount(r) ==
    IF r.kind = "count" THEN [raised |-> FALSE, value |-> r.count]
    ELSE IF r.kind = "nofield" THEN [raised |-> FALSE, value |-> 0]
    ELSE [raised |-> TRUE, value |-> 0]

\* the for loop over the gathered responses, up to the first that raises
RECURSIVE AppendCounts(_, _)
AppendCounts(responses, app_players) ==
    IF responses = <<>> THEN [raised |-> FALSE, players |-> app_players]
    ELSE LET c == PlayerCount(Head(responses))
         IN  IF c.raised THEN [raised |-> TRUE, players |-> app_players]
             ELSE AppendCounts(Tail(responses), Append(app_players, c.value))

\* every retrieval has completed: gather returns and the counts are appended
GatherResults ==
    /\ pc = "gather"
    /\ \A i \in DOMAIN futures : futures[i] # Pending
    /\ LET got == AppendCounts(Gather(futures, completed), found_app_players)
       IN  /\ found_app_players' = got.players
           /\ IF got.raised
              THEN Raise("ValueError", "get_player_counts")
              ELSE pc' = "print_player_table" /\ UNCHANGED error
    /\ UNCHANGED <<fsVars, argVars, listVars, found_app_ids, found_app_names,
                   futures, completed, tableVars>>

(***************************************************************************)
(* print_player_table                                                      *)
(***************************************************************************)
NoCheck(ids, names) == ""

\* the two guards at the head of print_player_table: the message written
\* to sys.stderr before sys.exit(), "" when neither list is empty
NoResults(ids, names) ==
    IF ids = <<>> THEN "No App ID's found with search term"
    ELSE IF names = <<>> THEN "No App Names found with search term"
    ELSE ""

\* zip(found_app_players, found_app_ids, found_app_names)
Zip(players, ids, names) ==
    [k \in 1..Min(Len(players), Min(Len(ids), Len(names))) |->
        [p |-> players[k], i |-> ids[k], n |-> names[k]]]

\* Python's tuple order on (players, id, name)
TupleLess(x, y) ==
    \/ x.p < y.p
    \/ x.p = y.p /\ x.i < y.i
    \/ x.p = y.p /\ x.i = y.i /\ StrLess(x.n, y.n)

\* x goes behind every record that is not greater than it
RECURSIVE Insert(_, _)
Insert(x, s) ==
    IF s = <<>> THEN <<x>>
    ELSE IF TupleLess(x, Head(s)) THEN <<x>> \o s
    ELSE <<Head(s)>> \o Insert(x, Tail(s))

\* sorted(zipped): ascending and stable
RECURSIVE Sorted(_)
Sorted(s) ==
    IF s = <<>> THEN <<>>
    ELSE Insert(s[Len(s)], Sorted(SubSeq(s, 1, Len(s) - 1)))

\* the number of passes of "for n in range(len(found_app_ids))" before
\* "n >= num_rows" breaks out of it
Passes(length, rows) == IF rows <= 0 THEN 0 ELSE Min(length, rows)

PopFront(s, rows) == [k \in 1..Passes(Len(s), rows) |-> s[k]]

\* display_app_*.append(found_app_*.pop()), once per pass
PopEnd(s, rows) == [k \in 1..Passes(Len(s), rows) |-> s[Len(s) - k + 1]]

\* the found_app_* lists after the pops
Remaining(s, rows) == SubSeq(s, 1, Len(s) - Passes(Len(s), rows))

\* if not found_app_ids / elif not found_app_names: message and sys.exit()
CheckEmpty ==
    /\ pc = "print_player_table"
    /\ stderr' = NoResults(found_app_ids, found_app_names)
    /\ pc' = IF stderr' # "" THEN "exited" ELSE "sort"
    /\ UNCHANGED <<fsVars, argVars, listVars, infoVars, zipped, display, w, output, error>>

\* the lists are zipped, sorted and unzipped, and the display lists filled
SortAndSelect ==
    /\ pc = "sort"
    /\ LET all == Sorted(Zip(found_app_players, found_app_ids, found_app_names))
       IN  /\ display' = PopEnd(all, num_rows)
           /\ zipped' = Remaining(all, num_rows)
    /\ pc' = "terminal"
    /\ UNCHANGED <<fsVars, argVars, listVars, infoVars, w, output, stderr, error>>

\* w = int(os.get_terminal_size().columns): OSError when stdout is no terminal
GetTerminalSize ==
    /\ pc = "terminal"
    /\ \E isatty \in BOOLEAN, columns \in TerminalWidths :
        IF isatty
        THEN w' = columns /\ pc' = "render" /\ UNCHANGED error
        ELSE Raise("OSError", "get_terminal_size") /\ UNCHANGED w
    /\ UNCHANGED <<fsVars, argVars, listVars, infoVars, zipped, display, output, stderr>>

\* len(max(display_app_names, key=len))
RECURSIVE LongestName(_)
LongestName(rows) ==
    IF rows = <<>> THEN 0 ELSE Max(Len(Head(rows).n), LongestName(Tail(rows)))

\* longest_name_width, at most int(w / 3)
NameWidth(rows, width) == Min(LongestName(rows), width \div 3)

\* a row of the table: name[:longest_name_width]
Row(r, width) == [i |-> r.i, n |-> SubSeq(r.n, 1, Min(Len(r.n), width)), p |-> r.p]

\* len(header): "| " id:<10 " | " name:<mid_space " | " players:<10 " |",
\* where "App Name" is padded to mid_space but never cut
HeaderLen(mid_space) == 30 + Max(8, mid_space)

\* the list or the table is printed; max() of no names raises ValueError
Render ==
    /\ pc = "render"
    /\ IF PRINT_LIST
       THEN /\ output' = [format |-> "list", rule |-> w \div 3, width |-> 0,
                          rows |-> display]
            /\ pc' = "done"
            /\ UNCHANGED error
       ELSE IF display = <<>>
       THEN /\ Raise("ValueError", "render")
            /\ UNCHANGED output
       ELSE LET mid_space == NameWidth(display, w)
            IN  /\ output' = [format |-> "table", rule |-> HeaderLen(mid_space),
                              width |-> mid_space,
                              rows |-> [k \in 1..Len(display) |-> Row(display[k], mid_space)]]
                /\ pc' = "done"
                /\ UNCHANGED error
    /\ UNCHANGED <<fsVars, argVars, listVars, infoVars, zipped, display, w, stderr>>

(***************************************************************************)
(* The operator terminates the process (Ctrl-C in the retry loop, kill):   *)
(* its memory is gone, the file system stays as it is.                     *)
(***************************************************************************)
Kill ==
    /\ ~Ended
    /\ pc' = "killed"
    /\ clear_cache' = FALSE
    /\ PRINT_LIST' = FALSE
    /\ num_rows' = 0
    /\ query' = <<>>
    /\ res' = NoResponse
    /\ attempts' = <<>>
    /\ fetched' = FALSE
    /\ found_app_ids' = <<>>
    /\ found_app_names' = <<>>
    /\ found_app_players' = <<>>
    /\ futures' = <<>>
    /\ completed' = <<>>
    /\ zipped' = <<>>
    /\ display' = <<>>
    /\ w' = 0
    /\ output' = NoOutput
    /\ stderr' = ""
    /\ error' = NoError
    /\ UNCHANGED fsVars

Next ==
    \/ Invoke
    \/ Invalidate
    \/ EnsureDir
    \/ FirstRequest
    \/ RetryRequest
    \/ LeaveLoop
    \/ OpenFile
    \/ WriteFile
    \/ LoadAndMatch
    \/ CompleteRetrieval
    \/ GatherResults
    \/ CheckEmpty
    \/ SortAndSelect
    \/ GetTerminalSize
    \/ Render
    \/ Kill

Spec == Init /\ [][Next]_vars

TypeOK ==
    /\ cacheDir \in BOOLEAN /\ fileExists \in BOOLEAN
    /\ fileText \in BodyTexts \cup {""}
    /\ Len(found_app_ids) = Len(found_app_names)
    /\ Len(futures) = Len(found_app_ids) \/ pc \in {"main", "makedirs", "cache_hit", "get_app_list"}

(***************************************************************************)
(* Where a run is.                                                         *)
(***************************************************************************)
\* get_apps_info has searched the snapshot
Matched ==
    \/ pc \in {"gather", "print_player_table", "sort", "terminal", "render",
               "done", "exited"}
    \/ pc = "crashed" /\ error.at \in {"get_player_counts", "get_terminal_size", "render"}

\* get_player_counts has returned
Returned ==
    \/ pc \in {"print_player_table", "sort", "terminal", "render", "done", "exited"}
    \/ pc = "crashed" /\ error.at \in {"get_terminal_size", "render"}

\* print_player_table has filled the display lists
Selected ==
    \/ pc \in {"terminal", "render", "done"}
    \/ pc = "crashed" /\ error.at \in {"get_terminal_size", "render"}

(***************************************************************************)
(* Metric Fetcher                                                          *)
(***************************************************************************)
\* C1: whatever the order in which the retrievals complete, when
\* get_player_counts returns for a non-empty list of ids, app_players is as
\* long as app_ids and position i holds the metric of the response to the
\* request for app_ids[i].
C1_PositionalCorrespondence ==
    (Returned /\ found_app_ids # <<>>) =>
        /\ Len(found_app_players) = Len(found_app_ids)
        /\ \A i \in DOMAIN futures :
             futures[i].kind = "count" => found_app_players[i] = futures[i].count

\* two retrievals completed in the opposite order of their launch and
\* brought different metrics
C1_Witness ==
    /\ Returned
    /\ Len(completed) >= 2
    /\ completed[1] > completed[2]
    /\ futures[completed[1]].kind = "count"
    /\ futures[completed[2]].kind = "count"
    /\ futures[completed[1]].count # futures[completed[2]].count

\* C2: a response without player_count does not abort the batch (only a
\* retrieval or a body that raises does), its position holds exactly 0, and
\* every other position holds the metric of its own response.
C2_MissingMetricIsZero ==
    /\ (pc = "crashed" /\ error.at = "get_player_counts") =>
          \E i \in DOMAIN futures : futures[i].kind \in {"badjson", "transport"}
    /\ Returned =>
          \A j \in DOMAIN futures :
             futures[j].kind = "nofield" =>
                /\ found_app_players[j] = 0
                /\ \A i \in DOMAIN futures \ {j} :
                     futures[i].kind = "count" => found_app_players[i] = futures[i].count

\* a batch with a response that lacks the metric and another that carries one
C2_Witness ==
    /\ Returned
    /\ \E j, i \in DOMAIN futures :
         /\ futures[j].kind = "nofield"
         /\ futures[i].kind = "count"
         /\ futures[i].count > 0
         /\ found_app_players[j] = 0

\* C3: a retrieval that fails at transport level leaves 0 at its position:
\* get_player_counts returns a full-length result and the failure does not
\* end the run.
C3_TransportFailureIsZero ==
    (\E j \in DOMAIN futures : futures[j].kind = "transport") =>
        /\ ~(pc = "crashed" /\ error.at = "get_player_counts")
        /\ Returned =>
             /\ Len(found_app_players) = Len(found_app_ids)
             /\ \A j \in DOMAIN futures :
                  futures[j].kind = "transport" => found_app_players[j] = 0

(***************************************************************************)
(* Catalog Cache                                                           *)
(***************************************************************************)
\* C4: a run with --clear-cache does not fail at the invalidation step,
\* whatever the state of the cache, and has fetched the catalog anew by the
\* time the snapshot is searched.
C4_ClearCacheFromAnyState ==
    clear_cache =>
        /\ ~(pc = "crashed" /\ error.at = "invalidate")
        /\ Matched => fetched

C6_FetchErrorIsFatal ==
    (\E k \in DOMAIN attempts : attempts[k].raised \/ attempts[k].status >= 400) =>
        /\ pc \notin {"open", "write", "list_saved"}
        /\ ~fileExists

\* C10: whenever the snapshot file exists, also between runs and after a
\* run was terminated or failed, it holds the complete body of a non-empty
\* catalog response.
C10_SnapshotIsWholeCatalog ==
    (Ended /\ fileExists) => fileText \in CatalogTexts

(***************************************************************************)
(* Result Presenter                                                        *)
(***************************************************************************)
\* ascending by value, id as tie-break
KeyLeq(x, y) == x.p < y.p \/ (x.p = y.p /\ x.i <= y.i)

Occurrences(x, s) == Cardinality({k \in DOMAIN s : s[k] = x})

\* C7: for num_rows >= 0 the display lists hold min(num_rows, number of
\* records) records, listed from highest to lowest by (value, id); no
\* record left out is greater than a displayed one; and the displayed and
\* the left-out records together are the records passed in.
C7_DisplaySet ==
    (Selected /\ num_rows >= 0) =>
        LET n == Len(found_app_ids)
            given == [k \in 1..n |-> [p |-> found_app_players[k],
                                      i |-> found_app_ids[k],
                                      n |-> found_app_names[k]]]
            kept == display \o zipped
        IN  /\ Len(display) = (IF num_rows < n THEN num_rows ELSE n)
            /\ \A j, k \in DOMAIN display : j < k => KeyLeq(display[k], display[j])
            /\ \A j \in DOMAIN display, k \in DOMAIN zipped : KeyLeq(zipped[k], display[j])
            /\ Len(kept) = n
            /\ \A k \in 1..n : Occurrences(given[k], kept) = Occurrences(given[k], given)

\* two of three records displayed, equal in value and told apart by id
C7_Witness ==
    /\ Selected
    /\ Len(found_app_ids) = 3
    /\ num_rows = 2
    /\ Len(display) = 2
    /\ display[1].p = display[2].p
    /\ display[1].i > display[2].i
    /\ zipped[1].p < display[2].p

\* C8: when the query matches nothing, the run passes get_player_counts,
\* writes the no-results message to the error stream and exits: nothing is
\* sorted or rendered and no exception ends the run.
C8_NoMatches ==
    (Matched /\ found_app_ids = <<>>) =>
        /\ pc \in {"gather", "print_player_table", "exited"}
        /\ pc = "exited" => stderr = "No App ID's found with search term"
        /\ output = NoOutput
        /\ display = <<>>

\* a run over a snapshot that was searched without a match has exited
C8_Witness ==
    /\ pc = "exited"
    /\ fileText \in CatalogTexts
    /\ found_app_ids = <<>>
    /\ stderr # ""

\* C9: a terminal whose width cannot be read does not make the render fail.
C9_TerminalWidthFallback ==
    ~(pc = "crashed" /\ error.at = "get_terminal_size")

====
